---- MODULE Spec2Model ----
(***************************************************************************)
(* Availability-slot management of the UniHaven booking backend:           *)
(* accommodations own availability slots, reservations are carved out of   *)
(* a covering slot (split_slot), cancellations hand the range back and     *)
(* coalesce day-adjacent slots (merge_adjacent_slots), and the             *)
(* accommodation's is_available flag is aggregated from its slots.         *)
(* Dates are day numbers; the database is the record Db.                   *)
(***************************************************************************)
EXTENDS Integers, Sequences, FiniteSets, TLC

VARIABLES accommodations, slots, reservations, nextSlotId, nextResId,
          call, orig, procs

vars == <<accommodations, slots, reservations, nextSlotId, nextResId,
          call, orig, procs>>

(***************************************************************************)
(* Bounds                                                                  *)
(***************************************************************************)
MaxDay == 2
MaxSlots == 2
MaxRes == 2
MaxMinDays == 2
MaxUnitSlots == 3
RTMaxDay == 4
MaxCancels == 2

Days == 0..MaxDay
Accs == {1}
Members == {1, 2}
Statuses == {"PENDING", "CONFIRMED", "CANCELLED", "COMPLETED"}
PayloadStatuses == {"PENDING", "CONFIRMED"}
TieOrders == {"asc", "desc"}

Today == 1

None == [id |-> 0]

MemberUniversity(m) == m
AccUniversities(a) == {1}

(***************************************************************************)
(* The database as one value                                               *)
(***************************************************************************)
Db == [acc |-> accommodations, slots |-> slots, res |-> reservations,
       nsid |-> nextSlotId, nrid |-> nextResId]

Stored(db, a) == db.acc[a].is_available

AvailableSlotsAnyAccommodation(db, a) == {s \in db.slots : s.is_available}

AvailableSlots(db, a) == {s \in db.slots : s.acc = a /\ s.is_available}

(***************************************************************************)
(* Accommodation.update_availability_status, called on an object whose     *)
(* in-memory flag is mem; the write happens only when mem differs.         *)
(***************************************************************************)
update_availability_status_never_saves(db, a, mem) == db

update_availability_status_any_slot(db, a, mem) ==
    LET has_slots == {s \in db.slots : s.acc = a} # {}
    IN  IF mem # has_slots
        THEN [db EXCEPT !.acc[a].is_available = has_slots]
        ELSE db

update_availability_status(db, a, mem) ==
    LET has_available_slots == AvailableSlots(db, a) # {}
    IN  IF mem # has_available_slots
        THEN [db EXCEPT !.acc[a].is_available = has_available_slots]
        ELSE db

covers_overlapping(s, f, t) == s.start_date <= t /\ s.end_date >= f

covers_start_only(s, f, t) == s.start_date <= f /\ s.end_date >= f

\* the filter start_date__lte=reserved_from, end_date__gte=reserved_to
Covers(s, f, t) == s.start_date <= f /\ s.end_date >= t

(***************************************************************************)
(* Accommodation.is_available_for_dates on an object whose flag is mem     *)
(***************************************************************************)
is_available_for_dates_ignoring_flag(db, a, mem, start_date, end_date) ==
    IF (end_date - start_date) + 1 < db.acc[a].min_reservation_days THEN FALSE
    ELSE \E s \in AvailableSlots(db, a) : Covers(s, start_date, end_date)

is_available_for_dates_min_days_exclusive(db, a, mem, start_date, end_date) ==
    IF ~mem THEN FALSE
    ELSE IF (end_date - start_date) < db.acc[a].min_reservation_days THEN FALSE
    ELSE \E s \in AvailableSlots(db, a) : Covers(s, start_date, end_date)

is_available_for_dates(db, a, mem, start_date, end_date) ==
    IF ~mem THEN FALSE
    ELSE IF (end_date - start_date) + 1 < db.acc[a].min_reservation_days THEN FALSE
    ELSE \E s \in AvailableSlots(db, a) : Covers(s, start_date, end_date)

(***************************************************************************)
(* AvailabilitySlot.save / objects.create / delete                         *)
(***************************************************************************)
slot_save(db, s, mem) ==
    LET d1 == [db EXCEPT !.slots = {x \in @ : x.id # s.id} \cup {s}]
    IN  IF s.is_available THEN update_availability_status(d1, s.acc, mem) ELSE d1

slot_create(db, a, sd, ed, av, mem) ==
    slot_save([db EXCEPT !.nsid = @ + 1],
              [id |-> db.nsid, acc |-> a, start_date |-> sd, end_date |-> ed,
               is_available |-> av], mem)

slot_delete(db, s, mem) ==
    update_availability_status([db EXCEPT !.slots = {x \in @ : x.id # s.id}],
                               s.acc, mem)

(***************************************************************************)
(* AvailabilitySlot.split_slot: the residuals it creates and returns       *)
(***************************************************************************)
before_end_same_day(start_date) == start_date

\* end_date of the before residual: start_date - timedelta(days=1)
before_end(start_date) == start_date - 1

\* start_date of the after residual: end_date + timedelta(days=1)
after_start(end_date) == end_date + 1

need_before_inclusive(slot, start_date) == start_date >= slot.start_date

need_before(slot, start_date) == start_date > slot.start_date

need_after(slot, end_date) == end_date < slot.end_date

split_slot_deleting_original(db, slot, start_date, end_date) ==
    LET mem0 == Stored(db, slot.acc)
        mkB  == need_before(slot, start_date)
        d1   == IF mkB
                THEN slot_create(db, slot.acc, slot.start_date, before_end(start_date),
                                 TRUE, mem0)
                ELSE db
        before_slot == IF mkB
                       THEN [id |-> db.nsid, acc |-> slot.acc,
                             start_date |-> slot.start_date,
                             end_date |-> before_end(start_date),
                             is_available |-> TRUE]
                       ELSE None
        mem1 == IF mkB THEN TRUE ELSE Stored(d1, slot.acc)
        mkA  == need_after(slot, end_date)
        d2   == IF mkA
                THEN slot_create(d1, slot.acc, after_start(end_date), slot.end_date,
                                 TRUE, mem1)
                ELSE d1
        after_slot == IF mkA
                      THEN [id |-> d1.nsid, acc |-> slot.acc,
                            start_date |-> after_start(end_date),
                            end_date |-> slot.end_date, is_available |-> TRUE]
                      ELSE None
    IN  [db |-> [d2 EXCEPT !.slots = {x \in @ : x.id # slot.id}],
         before_slot |-> before_slot, after_slot |-> after_slot]

split_slot(db, slot, start_date, end_date) ==
    LET mem0 == Stored(db, slot.acc)
        mkB  == need_before(slot, start_date)
        d1   == IF mkB
                THEN slot_create(db, slot.acc, slot.start_date, before_end(start_date),
                                 TRUE, mem0)
                ELSE db
        before_slot == IF mkB
                       THEN [id |-> db.nsid, acc |-> slot.acc,
                             start_date |-> slot.start_date,
                             end_date |-> before_end(start_date),
                             is_available |-> TRUE]
                       ELSE None
        mem1 == IF mkB THEN TRUE ELSE Stored(d1, slot.acc)
        mkA  == need_after(slot, end_date)
        d2   == IF mkA
                THEN slot_create(d1, slot.acc, after_start(end_date), slot.end_date,
                                 TRUE, mem1)
                ELSE d1
        after_slot == IF mkA
                      THEN [id |-> d1.nsid, acc |-> slot.acc,
                            start_date |-> after_start(end_date),
                            end_date |-> slot.end_date, is_available |-> TRUE]
                      ELSE None
    IN  [db |-> d2, before_slot |-> before_slot, after_slot |-> after_slot]

(***************************************************************************)
(* order_by('start_date'): rows with equal start_date come in an order the *)
(* database chooses; ord picks it (by ascending or by descending pk).      *)
(***************************************************************************)
Precedes(x, y, ord) ==
    \/ x.start_date < y.start_date
    \/ /\ x.start_date = y.start_date
       /\ IF ord = "asc" THEN x.id < y.id ELSE x.id > y.id

RECURSIVE SortSlots(_, _)
SortSlots(S, ord) ==
    IF S = {} THEN <<>>
    ELSE LET m == CHOOSE x \in S : \A y \in S \ {x} : Precedes(x, y, ord)
         IN  <<m>> \o SortSlots(S \ {m}, ord)

get_available_slots(db, a, ord) == SortSlots(AvailableSlots(db, a), ord)

(***************************************************************************)
(* AvailabilitySlot.merge_adjacent_slots                                   *)
(***************************************************************************)
is_adjacent_or_overlapping(current, next_slot) ==
    current.end_date + 1 >= next_slot.start_date

\* current.end_date + timedelta(days=1) == next_slot.start_date
is_adjacent(current, next_slot) == current.end_date + 1 = next_slot.start_date

merged_db_keeping_next(db, a, current, next_slot) ==
    slot_save(db, [current EXCEPT !.end_date = next_slot.end_date], Stored(db, a))

merged_db(db, a, current, next_slot) ==
    LET d1 == slot_save(db, [current EXCEPT !.end_date = next_slot.end_date],
                        Stored(db, a))
    IN  slot_delete(d1, next_slot, Stored(d1, a))

RECURSIVE MergeLoopNoRescan(_, _, _, _)
MergeLoopNoRescan(db, a, i, ord) ==
    LET L == get_available_slots(db, a, ord)
    IN  IF ~(i < Len(L) - 1) THEN db
        ELSE IF is_adjacent(L[i + 1], L[i + 2])
             THEN MergeLoopNoRescan(merged_db(db, a, L[i + 1], L[i + 2]), a, i + 1, ord)
             ELSE MergeLoopNoRescan(db, a, i + 1, ord)

RECURSIVE MergeLoop(_, _, _, _)
MergeLoop(db, a, i, ord) ==
    LET L == get_available_slots(db, a, ord)
    IN  IF ~(i < Len(L) - 1) THEN db
        ELSE LET current   == L[i + 1]
                 next_slot == L[i + 2]
             IN  IF is_adjacent(current, next_slot)
                 THEN MergeLoop(merged_db(db, a, current, next_slot), a, i, ord)
                 ELSE MergeLoop(db, a, i + 1, ord)

merge_adjacent_slots(db, a, ord) ==
    IF Cardinality(AvailableSlots(db, a)) <= 1 THEN db
    ELSE MergeLoop(db, a, 0, ord)

(***************************************************************************)
(* Query helpers of the views                                              *)
(***************************************************************************)
\* AvailabilitySlot.objects.filter(...).first(): lowest pk among the matches
covering_slot(db, a, f, t) ==
    LET C == {s \in AvailableSlots(db, a) : Covers(s, f, t)}
    IN  IF C = {} THEN None
        ELSE CHOOSE s \in C : \A x \in C : s.id <= x.id

Accept(db) == [ok |-> TRUE, why |-> "ok", db |-> db]
Reject(db, why) == [ok |-> FALSE, why |-> why, db |-> db]

(***************************************************************************)
(* ReservationSerializer.validate for a new reservation (instance is None) *)
(***************************************************************************)
validate_without_university(db, a, m, reserved_from, reserved_to) ==
    IF reserved_from > reserved_to THEN "date_order"
    ELSE IF reserved_from < Today THEN "past"
    ELSE IF (reserved_to - reserved_from) + 1 < db.acc[a].min_reservation_days
         THEN "min_days"
    ELSE IF ~is_available_for_dates(db, a, Stored(db, a), reserved_from, reserved_to)
         THEN "not_available"
    ELSE IF \E r \in db.res :
               /\ r.acc = a
               /\ r.status \in {"PENDING", "CONFIRMED"}
               /\ r.reserved_from < reserved_to
               /\ r.reserved_to > reserved_from
         THEN "overlap"
    ELSE "ok"

validate(db, a, m, reserved_from, reserved_to) ==
    IF MemberUniversity(m) \notin AccUniversities(a) THEN "university"
    ELSE IF reserved_from > reserved_to THEN "date_order"
    ELSE IF reserved_from < Today THEN "past"
    ELSE IF (reserved_to - reserved_from) + 1 < db.acc[a].min_reservation_days
         THEN "min_days"
    ELSE IF ~is_available_for_dates(db, a, Stored(db, a), reserved_from, reserved_to)
         THEN "not_available"
    ELSE IF \E r \in db.res :
               /\ r.acc = a
               /\ r.status \in {"PENDING", "CONFIRMED"}
               /\ r.reserved_from < reserved_to
               /\ r.reserved_to > reserved_from
         THEN "overlap"
    ELSE "ok"

\* slot.split_slot(reserved_from, reserved_to); slot.delete()
consume_slot(db, slot, f, t) ==
    LET sp   == split_slot(db, slot, f, t)
        memB == IF sp.before_slot.id # 0 \/ sp.after_slot.id # 0
                THEN TRUE ELSE Stored(sp.db, slot.acc)
    IN  slot_delete(sp.db, slot, memB)

\* serializer.save(): a new Reservation row
reservation_save(db, a, m, f, t, st) ==
    [db EXCEPT !.res = @ \cup {[id |-> db.nrid, acc |-> a, member |-> m,
                                reserved_from |-> f, reserved_to |-> t,
                                status |-> st]},
               !.nrid = @ + 1]

(***************************************************************************)
(* AccommodationViewSet.reserve                                            *)
(***************************************************************************)
reserve_without_validation(db, a, m, f, t) ==
    LET memA == Stored(db, a)
    IN  IF ~memA THEN Reject(db, "flag_unavailable")
        ELSE IF MemberUniversity(m) \notin AccUniversities(a)
             THEN Reject(db, "university")
        ELSE IF ~is_available_for_dates(db, a, memA, f, t)
             THEN Reject(db, "not_available")
        ELSE LET slot == covering_slot(db, a, f, t)
             IN  IF slot.id = 0 THEN Reject(db, "no_slot")
                 ELSE LET d1 == consume_slot(db, slot, f, t)
                          d2 == reservation_save(d1, a, m, f, t, "PENDING")
                      IN  Accept(update_availability_status(d2, a, memA))

reserve_validating_late(db, a, m, f, t) ==
    LET memA == Stored(db, a)
    IN  IF ~memA THEN Reject(db, "flag_unavailable")
        ELSE IF MemberUniversity(m) \notin AccUniversities(a)
             THEN Reject(db, "university")
        ELSE IF ~is_available_for_dates(db, a, memA, f, t)
             THEN Reject(db, "not_available")
        ELSE LET slot == covering_slot(db, a, f, t)
                 d1   == consume_slot(db, slot, f, t)
             IN  IF validate(db, a, m, f, t) # "ok"
                 THEN Reject(d1, validate(db, a, m, f, t))
                 ELSE Accept(update_availability_status(
                                reservation_save(d1, a, m, f, t, "PENDING"), a, memA))

reserve(db, a, m, f, t) ==
    LET memA == Stored(db, a)
    IN  IF ~memA THEN Reject(db, "flag_unavailable")
        ELSE IF MemberUniversity(m) \notin AccUniversities(a)
             THEN Reject(db, "university")
        ELSE IF ~is_available_for_dates(db, a, memA, f, t)
             THEN Reject(db, "not_available")
        ELSE IF validate(db, a, m, f, t) # "ok"
             THEN Reject(db, validate(db, a, m, f, t))
        ELSE LET slot == covering_slot(db, a, f, t)
             IN  IF slot.id = 0 THEN Reject(db, "no_slot")
                 ELSE LET d1 == consume_slot(db, slot, f, t)
                          d2 == reservation_save(d1, a, m, f, t, "PENDING")
                      IN  Accept(update_availability_status(d2, a, memA))

(***************************************************************************)
(* ReservationViewSet.create; st is the payload's status (PENDING when     *)
(* the payload has none)                                                   *)
(***************************************************************************)
reservation_create(db, a, m, f, t, st) ==
    IF validate(db, a, m, f, t) # "ok" THEN Reject(db, validate(db, a, m, f, t))
    ELSE IF ~is_available_for_dates(db, a, Stored(db, a), f, t)
         THEN Reject(db, "not_available")
    ELSE LET slot == covering_slot(db, a, f, t)
         IN  IF slot.id = 0 THEN Reject(db, "no_slot")
             ELSE LET d1 == consume_slot(db, slot, f, t)
                      d2 == reservation_save(d1, a, m, f, t, st)
                  IN  Accept(IF AvailableSlots(d2, a) = {}
                             THEN [d2 EXCEPT !.acc[a].is_available = FALSE]
                             ELSE d2)

(***************************************************************************)
(* Reservation.can_be_cancelled / is_cancelled / cancel                    *)
(***************************************************************************)
can_be_cancelled_or_confirmed(r) == r.status \in {"PENDING", "CONFIRMED"}

can_be_cancelled(r) == r.status \in {"PENDING"}

is_cancelled(r) == r.status = "CANCELLED"

set_status(db, r, st) ==
    [db EXCEPT !.res = {x \in @ : x.id # r.id} \cup {[r EXCEPT !.status = st]}]

cancel_any_status(db, r, ord) ==
    LET d1 == set_status(db, r, "CANCELLED")
        d2 == slot_create(d1, r.acc, r.reserved_from, r.reserved_to,
                          TRUE, Stored(d1, r.acc))
    IN  Accept(merge_adjacent_slots(d2, r.acc, ord))

cancel_without_merge(db, r, ord) ==
    IF is_cancelled(r) THEN Reject(db, "already_cancelled")
    ELSE IF can_be_cancelled(r)
         THEN Accept(slot_create(set_status(db, r, "CANCELLED"), r.acc,
                                 r.reserved_from, r.reserved_to, TRUE, Stored(db, r.acc)))
    ELSE Reject(db, "not_cancellable")

cancel(db, r, ord) ==
    IF is_cancelled(r) THEN Reject(db, "already_cancelled")
    ELSE IF can_be_cancelled(r)
         THEN LET d1 == set_status(db, r, "CANCELLED")
                  d2 == slot_create(d1, r.acc, r.reserved_from, r.reserved_to,
                                    TRUE, Stored(d1, r.acc))
              IN  Accept(merge_adjacent_slots(d2, r.acc, ord))
    ELSE Reject(db, "not_cancellable")

(***************************************************************************)
(* ReservationViewSet.cancel                                               *)
(***************************************************************************)
cancel_view(db, r, ord) ==
    IF is_cancelled(r) THEN Reject(db, "already_cancelled")
    ELSE IF ~can_be_cancelled(r) THEN Reject(db, "not_cancellable")
    ELSE LET c == cancel(db, r, ord)
         IN  IF c.ok THEN Accept(update_availability_status(c.db, r.acc, TRUE))
             ELSE Reject(c.db, "cancel_failed")

(***************************************************************************)
(* ReservationViewSet.update_status                                        *)
(***************************************************************************)
update_status_cancel_branch_or(db, r, new_status, ord) ==
    IF new_status \notin Statuses THEN Reject(db, "invalid_status")
    ELSE IF r.status = new_status THEN Accept(db)
    ELSE IF new_status = "CANCELLED" \/ r.status # "CANCELLED"
         THEN LET c == cancel(db, r, ord)
              IN  IF c.ok THEN Accept(c.db) ELSE Reject(c.db, "cancel_failed")
    ELSE Accept(set_status(db, r, new_status))

update_status(db, r, new_status, ord) ==
    IF new_status \notin Statuses THEN Reject(db, "invalid_status")
    ELSE IF r.status = new_status THEN Accept(db)
    ELSE IF new_status = "CANCELLED" /\ r.status # "CANCELLED"
         THEN LET c == cancel(db, r, ord)
              IN  IF c.ok THEN Accept(c.db) ELSE Reject(c.db, "cancel_failed")
    ELSE Accept(set_status(db, r, new_status))

(***************************************************************************)
(* ReservationAdmin.mark_as_cancelled / mark_as_completed, for one         *)
(* selected reservation                                                    *)
(***************************************************************************)
mark_as_cancelled(db, r, ord) ==
    IF can_be_cancelled(r) THEN Accept(cancel(db, r, ord).db) ELSE Accept(db)

mark_as_completed(db, r) == Accept(set_status(db, r, "COMPLETED"))

(***************************************************************************)
(* AccommodationViewSet.mark_unavailable                                   *)
(***************************************************************************)
mark_unavailable(db, a) == Accept([db EXCEPT !.acc[a].is_available = FALSE])

(***************************************************************************)
(* AccommodationViewSet.destroy: perform_destroy cascades to the slots and *)
(* the reservations of the accommodation                                   *)
(***************************************************************************)
NoAccommodation ==
    [exists |-> FALSE, is_available |-> FALSE, min_reservation_days |-> 1]

destroy_blocked_by_pending_only(db, a) ==
    IF \E r \in db.res : r.acc = a /\ r.status \in {"PENDING"}
    THEN Reject(db, "active_reservations")
    ELSE Accept([db EXCEPT !.acc[a] = NoAccommodation,
                           !.slots = {x \in @ : x.acc # a},
                           !.res = {x \in @ : x.acc # a}])

destroy(db, a) ==
    IF \E r \in db.res : r.acc = a /\ r.status \in {"PENDING", "CONFIRMED"}
    THEN Reject(db, "active_reservations")
    ELSE Accept([db EXCEPT !.acc[a] = NoAccommodation,
                           !.slots = {x \in @ : x.acc # a},
                           !.res = {x \in @ : x.acc # a}])

(***************************************************************************)
(* AccommodationViewSet.add_availability                                   *)
(***************************************************************************)
add_availability(db, a, start_date, end_date, ord) ==
    LET memA == Stored(db, a)
        d1   == slot_create(db, a, start_date, end_date, TRUE, memA)
        d2   == merge_adjacent_slots(d1, a, ord)
    IN  Accept(d2)

(***************************************************************************)
(* AccommodationSerializer.create: has_initial tells whether both          *)
(* initial_available_from and initial_available_to were supplied           *)
(***************************************************************************)
accommodation_create(db, a, is_available, min_days, has_initial, from, to) ==
    LET d1 == [db EXCEPT !.acc[a] = [exists |-> TRUE, is_available |-> is_available,
                                     min_reservation_days |-> min_days]]
    IN  Accept(IF has_initial
               THEN slot_create(d1, a, from, to, TRUE, is_available)
               ELSE d1)

(***************************************************************************)
(* State machine: one request at a time                                    *)
(***************************************************************************)
NoCall == [op |-> "none"]

Init ==
    /\ accommodations = [a \in Accs |-> NoAccommodation]
    /\ slots = {}
    /\ reservations = {}
    /\ nextSlotId = 1
    /\ nextResId = 1
    /\ call = NoCall
    /\ orig = {}
    /\ procs = <<>>

SetDb(db) ==
    /\ accommodations' = db.acc
    /\ slots' = db.slots
    /\ reservations' = db.res
    /\ nextSlotId' = db.nsid
    /\ nextResId' = db.nrid

\* Primary keys are observed only through their order (first(), ties of
\* order_by), so between requests rows are renumbered 1..n in pk order.
Renumber(R) == {[r EXCEPT !.id = Cardinality({x \in R : x.id <= r.id})] : r \in R}

Commit(res) ==
    /\ Cardinality(res.db.slots) <= MaxSlots
    /\ Cardinality(res.db.res) <= MaxRes
    /\ accommodations' = res.db.acc
    /\ slots' = Renumber(res.db.slots)
    /\ reservations' = Renumber(res.db.res)
    /\ nextSlotId' = Cardinality(res.db.slots) + 1
    /\ nextResId' = Cardinality(res.db.res) + 1
    /\ UNCHANGED <<call, orig, procs>>

AccommodationCreate ==
    \E a \in Accs, av \in BOOLEAN, md \in 1..MaxMinDays, hi \in BOOLEAN,
       f \in Days, t \in Days :
        /\ ~accommodations[a].exists
        /\ hi \/ (f = 0 /\ t = 0)
        /\ Commit(accommodation_create(Db, a, av, md, hi, f, t))

AddAvailability ==
    \E a \in Accs, s \in Days, e \in Days, ord \in TieOrders :
        /\ accommodations[a].exists
        /\ Commit(add_availability(Db, a, s, e, ord))

Reserve ==
    \E a \in Accs, m \in Members, f \in Days, t \in Days :
        /\ accommodations[a].exists
        /\ Commit(reserve(Db, a, m, f, t))

ReservationCreate ==
    \E a \in Accs, m \in Members, f \in Days, t \in Days, st \in PayloadStatuses :
        /\ accommodations[a].exists
        /\ Commit(reservation_create(Db, a, m, f, t, st))

Cancel ==
    \E r \in reservations, ord \in TieOrders :
        Commit(cancel_view(Db, r, ord))

UpdateStatus ==
    \E r \in reservations, st \in Statuses, ord \in TieOrders :
        Commit(update_status(Db, r, st, ord))

MarkUnavailable ==
    \E a \in Accs :
        /\ accommodations[a].exists
        /\ Commit(mark_unavailable(Db, a))

Destroy ==
    \E a \in Accs :
        /\ accommodations[a].exists
        /\ Commit(destroy(Db, a))

AdminMarkAsCancelled ==
    \E r \in reservations, ord \in TieOrders :
        Commit(mark_as_cancelled(Db, r, ord))

AdminMarkAsCompleted ==
    \E r \in reservations :
        Commit(mark_as_completed(Db, r))

Next ==
    \/ AccommodationCreate
    \/ AddAvailability
    \/ Reserve
    \/ ReservationCreate
    \/ Cancel
    \/ UpdateStatus
    \/ MarkUnavailable
    \/ Destroy
    \/ AdminMarkAsCancelled
    \/ AdminMarkAsCompleted

Spec == Init /\ [][Next]_vars

(***************************************************************************)
(* Day sets of slots and reservations                                      *)
(***************************************************************************)
DaysOf(a, b) == {d \in a..b : TRUE}

SlotDays(s) == DaysOf(s.start_date, s.end_date)

Ranges(S) == {<<s.start_date, s.end_date>> : s \in S}

\* C1: no two distinct available slots of the same accommodation share a
\* calendar day, in every state reached by completed operations.
C1_NoOverlappingAvailableSlots ==
    \A x \in slots, y \in slots :
        (x.id # y.id /\ x.acc = y.acc /\ x.is_available /\ y.is_available)
            => SlotDays(x) \cap SlotDays(y) = {}

(***************************************************************************)
(* split_slot on its own: a stored slot (possibly beside another slot of   *)
(* the accommodation) and every pair of reservation dates                  *)
(***************************************************************************)
SlotShapes ==
    {[start_date |-> a, end_date |-> b, is_available |-> av] :
        a \in Days, b \in Days, av \in BOOLEAN}

MkSlot(i, a, sh) ==
    [id |-> i, acc |-> a, start_date |-> sh.start_date,
     end_date |-> sh.end_date, is_available |-> sh.is_available]

OneAccommodation(av, md) ==
    [a \in Accs |-> [exists |-> TRUE, is_available |-> av, min_reservation_days |-> md]]

InitSplit ==
    \E sh \in SlotShapes, other \in SlotShapes \cup {None}, av \in BOOLEAN :
        /\ accommodations = OneAccommodation(av, 1)
        /\ slots = {MkSlot(1, 1, sh)} \cup
                   (IF other = None THEN {} ELSE {MkSlot(2, 1, other)})
        /\ reservations = {}
        /\ nextSlotId = Cardinality(slots) + 1
        /\ nextResId = 1
        /\ call = NoCall
        /\ orig = slots
        /\ procs = <<>>

CallSplitSlot ==
    \E slot \in slots, f \in Days, t \in Days :
        /\ call.op = "none"
        /\ slot.id = 1
        /\ LET sp == split_slot(Db, slot, f, t)
           IN  /\ accommodations' = sp.db.acc
               /\ slots' = sp.db.slots
               /\ nextSlotId' = sp.db.nsid
               /\ call' = [op |-> "split_slot", slot |-> slot,
                           start_date |-> f, end_date |-> t,
                           before_slot |-> sp.before_slot,
                           after_slot |-> sp.after_slot]
        /\ UNCHANGED <<reservations, nextResId, orig, procs>>

NextSplit == CallSplitSlot

SpecSplit == InitSplit /\ [][NextSplit]_vars

Present(s) == s.id # 0

ResidualDays(s) == IF Present(s) THEN SlotDays(s) ELSE {}

\* C3: for an available slot [a, b] and a reservation [f, t] with
\* a <= f <= t <= b, split_slot returns before = [a, f-1] and
\* after = [t+1, b] (when present), both stored, available and of the
\* slot's accommodation; before, [f, t] and after are pairwise disjoint
\* and together are exactly the days of [a, b].
C3_SplitReconstructsSlot ==
    (/\ call.op = "split_slot"
     /\ call.slot.is_available
     /\ call.slot.start_date <= call.start_date
     /\ call.start_date <= call.end_date
     /\ call.end_date <= call.slot.end_date)
    => LET s == call.slot
           f == call.start_date
           t == call.end_date
           b == call.before_slot
           a == call.after_slot
       IN  /\ Present(b) => /\ b.start_date = s.start_date
                            /\ b.end_date = f - 1
                            /\ b.is_available
                            /\ b.acc = s.acc
                            /\ b \in slots
           /\ Present(a) => /\ a.start_date = t + 1
                            /\ a.end_date = s.end_date
                            /\ a.is_available
                            /\ a.acc = s.acc
                            /\ a \in slots
           /\ ResidualDays(b) \cap DaysOf(f, t) = {}
           /\ ResidualDays(a) \cap DaysOf(f, t) = {}
           /\ ResidualDays(b) \cap ResidualDays(a) = {}
           /\ ResidualDays(b) \cup DaysOf(f, t) \cup ResidualDays(a) = SlotDays(s)

C3_Witness ==
    /\ call.op = "split_slot"
    /\ call.slot.is_available
    /\ call.slot.start_date < call.start_date
    /\ call.start_date <= call.end_date
    /\ call.end_date < call.slot.end_date
    /\ Present(call.before_slot)
    /\ Present(call.after_slot)

\* C4: split_slot creates the before residual iff the reservation start is
\* strictly after the slot start, and the after residual iff the
\* reservation end is strictly before the slot end; a reservation equal to
\* the slot's bounds returns (None, None) and creates no slot.
C4_ResidualsIffStrictlyInside ==
    call.op = "split_slot"
    => LET s == call.slot
           f == call.start_date
           t == call.end_date
           created == slots \ orig
           isBefore(x) == x.start_date = s.start_date /\ x.end_date = f - 1
           isAfter(x) == x.start_date = t + 1 /\ x.end_date = s.end_date
       IN  /\ Present(call.before_slot) <=> f > s.start_date
           /\ Present(call.after_slot) <=> t < s.end_date
           /\ (call.before_slot \in created) <=> f > s.start_date
           /\ (call.after_slot \in created) <=> t < s.end_date
           /\ created \subseteq {call.before_slot, call.after_slot}
           /\ (f = s.start_date /\ t = s.end_date)
                 => /\ ~Present(call.before_slot)
                    /\ ~Present(call.after_slot)
                    /\ slots = orig

C4_Witness ==
    /\ call.op = "split_slot"
    /\ call.start_date = call.slot.start_date
    /\ call.end_date = call.slot.end_date
    /\ call.slot.start_date < call.slot.end_date
    /\ ~Present(call.before_slot)
    /\ ~Present(call.after_slot)
    /\ slots = orig

(***************************************************************************)
(* merge_adjacent_slots and update_availability_status on their own: any   *)
(* stored set of up to MaxUnitSlots slots of one accommodation             *)
(***************************************************************************)
InitSlots ==
    \E n \in 0..MaxUnitSlots, av \in BOOLEAN :
        \E shapes \in [1..n -> SlotShapes] :
            /\ accommodations = OneAccommodation(av, 1)
            /\ slots = {MkSlot(i, 1, shapes[i]) : i \in 1..n}
            /\ reservations = {}
            /\ nextSlotId = n + 1
            /\ nextResId = 1
            /\ call = NoCall
            /\ orig = slots
            /\ procs = <<>>

CallMergeAdjacentSlots ==
    \E a \in Accs, ord \in TieOrders :
        /\ call.op = "none"
        /\ LET d == merge_adjacent_slots(Db, a, ord)
           IN  /\ accommodations' = d.acc
               /\ slots' = d.slots
               /\ call' = [op |-> "merge_adjacent_slots", acc |-> a, ord |-> ord]
        /\ UNCHANGED <<reservations, nextSlotId, nextResId, orig, procs>>

\* accommodation.update_availability_status() on a freshly loaded object
CallUpdateAvailabilityStatus ==
    \E a \in Accs :
        /\ call.op = "none"
        /\ LET d == update_availability_status(Db, a, Stored(Db, a))
           IN  /\ accommodations' = d.acc
               /\ slots' = d.slots
               /\ call' = [op |-> "update_availability_status", acc |-> a,
                           prior |-> Stored(Db, a)]
        /\ UNCHANGED <<reservations, nextSlotId, nextResId, orig, procs>>

\* AvailabilitySlotAdmin: a stored slot is edited and saved
CallSlotSave ==
    \E s \in slots, sh \in SlotShapes :
        /\ call.op = "none"
        /\ LET d == slot_save(Db, MkSlot(s.id, s.acc, sh), Stored(Db, s.acc))
           IN  /\ accommodations' = d.acc
               /\ slots' = d.slots
               /\ call' = [op |-> "slot_save", acc |-> s.acc]
        /\ UNCHANGED <<reservations, nextSlotId, nextResId, orig, procs>>

\* AvailabilitySlotAdmin: a stored slot is deleted
CallSlotDelete ==
    \E s \in slots :
        /\ call.op = "none"
        /\ LET d == slot_delete(Db, s, Stored(Db, s.acc))
           IN  /\ accommodations' = d.acc
               /\ slots' = d.slots
               /\ call' = [op |-> "slot_delete", acc |-> s.acc]
        /\ UNCHANGED <<reservations, nextSlotId, nextResId, orig, procs>>

NextSlots ==
    \/ CallMergeAdjacentSlots
    \/ CallUpdateAvailabilityStatus
    \/ CallSlotSave
    \/ CallSlotDelete

SpecSlots == InitSlots /\ [][NextSlots]_vars

Available(S) == {s \in S : s.is_available}

ValidRange(s) == s.start_date <= s.end_date

PairwiseDisjoint(S) ==
    \A x \in S, y \in S : x.id # y.id => SlotDays(x) \cap SlotDays(y) = {}

\* every slot but the latest is followed by one starting the day after its end
IsChain(S) ==
    /\ S # {}
    /\ \A x \in S : ValidRange(x)
    /\ PairwiseDisjoint(S)
    /\ \A x \in S :
          \/ \A y \in S : y.start_date <= x.start_date
          \/ \E y \in S : x.end_date + 1 = y.start_date

MinStart(S) == CHOOSE d \in {s.start_date : s \in S} : \A s \in S : d <= s.start_date

MaxEnd(S) == CHOOSE d \in {s.end_date : s \in S} : \A s \in S : d >= s.end_date

\* C5: merge_adjacent_slots on N >= 1 pairwise-disjoint available slots
\* forming a chain (each end + 1 day = the next start) leaves exactly one
\* available slot, from the minimum start date to the maximum end date.
C5_ChainMergesToOneSlot ==
    (call.op = "merge_adjacent_slots" /\ IsChain(Available(orig)))
    => /\ Cardinality(Available(slots)) = 1
       /\ \A s \in Available(slots) :
             /\ s.start_date = MinStart(Available(orig))
             /\ s.end_date = MaxEnd(Available(orig))

C5_Witness ==
    /\ call.op = "merge_adjacent_slots"
    /\ IsChain(Available(orig))
    /\ Cardinality(Available(orig)) = 3
    /\ Cardinality(Available(slots)) = 1

Gapped(x, y) ==
    x.end_date + 1 < y.start_date \/ y.end_date + 1 < x.start_date

Overlapping(x, y) == SlotDays(x) \cap SlotDays(y) # {}

DayAdjacent(x, y) ==
    x.end_date + 1 = y.start_date \/ y.end_date + 1 = x.start_date

\* C6: merge_adjacent_slots leaves the slot set unchanged when the available
\* slots are pairwise separated by a gap of at least one day, and when two
\* available slots overlap without being day-adjacent.
C6_GapOrOverlapUnchanged ==
    call.op = "merge_adjacent_slots"
    => LET A == Available(orig)
       IN  /\ ((\A x \in A : ValidRange(x)) /\
               (\A x \in A, y \in A : x.id # y.id => Gapped(x, y)))
                 => slots = orig
           /\ (/\ Cardinality(A) = 2
               /\ \A x \in A : ValidRange(x)
               /\ \A x \in A, y \in A :
                     x.id # y.id => (Overlapping(x, y) /\ ~DayAdjacent(x, y)))
                 => slots = orig

C6_Witness ==
    /\ call.op = "merge_adjacent_slots"
    /\ Cardinality(Available(orig)) = 2
    /\ \A x \in Available(orig) : ValidRange(x)
    /\ \E x \in Available(orig), y \in Available(orig) :
          /\ x.start_date < y.start_date
          /\ y.start_date <= x.end_date
          /\ x.end_date < y.end_date
    /\ slots = orig

\* C7: immediately after update_availability_status() the stored
\* is_available equals "some slot of the accommodation is available", for
\* no slots, only unavailable slots and mixed slots, and either prior flag.
C7_FlagEqualsHasAvailableSlot ==
    call.op = "update_availability_status"
    => (accommodations[call.acc].is_available
          <=> \E s \in slots : s.acc = call.acc /\ s.is_available)

C7_Witness ==
    /\ call.op = "update_availability_status"
    /\ call.prior
    /\ slots # {}
    /\ \A s \in slots : ~s.is_available
    /\ ~accommodations[call.acc].is_available

(***************************************************************************)
(* Reserve, then cancel that reservation: from available slots that are    *)
(* pairwise disjoint and not day-adjacent, over the days 0..RTMaxDay       *)
(***************************************************************************)
RTDays == 0..RTMaxDay

RTShapes ==
    {[start_date |-> a, end_date |-> b, is_available |-> TRUE] :
        a \in RTDays, b \in RTDays}

Separated(S) ==
    /\ \A x \in S : ValidRange(x)
    /\ \A x \in S, y \in S : x.id # y.id => Gapped(x, y)

InitRT ==
    \E n \in 1..MaxSlots, av \in BOOLEAN, md \in 1..MaxMinDays :
        \E shapes \in [1..n -> RTShapes] :
            /\ accommodations = OneAccommodation(av, md)
            /\ slots = {MkSlot(i, 1, shapes[i]) : i \in 1..n}
            /\ Separated(slots)
            /\ reservations = {}
            /\ nextSlotId = n + 1
            /\ nextResId = 1
            /\ call = NoCall
            /\ orig = slots
            /\ procs = <<>>

RTReserve ==
    \E a \in Accs, m \in Members, f \in RTDays, t \in RTDays,
       path \in {"reserve", "reservation_create"} :
        /\ call.op = "none"
        /\ LET res == IF path = "reserve" THEN reserve(Db, a, m, f, t)
                      ELSE reservation_create(Db, a, m, f, t, "PENDING")
           IN  /\ res.ok
               /\ SetDb(res.db)
               /\ call' = [op |-> "reserve", path |-> path, rid |-> nextResId,
                           reserved_from |-> f, reserved_to |-> t]
        /\ UNCHANGED <<orig, procs>>

RTCancel ==
    \E r \in reservations, ord \in TieOrders, path \in {"cancel", "update_status"} :
        /\ call.op = "reserve"
        /\ r.id = call.rid
        /\ LET res == IF path = "cancel" THEN cancel_view(Db, r, ord)
                      ELSE update_status(Db, r, "CANCELLED", ord)
           IN  /\ res.ok
               /\ SetDb(res.db)
               /\ call' = [call EXCEPT !.op = "cancel", !.path = path]
        /\ UNCHANGED <<orig, procs>>

NextRT ==
    \/ RTReserve
    \/ RTCancel

SpecRT == InitRT /\ [][NextRT]_vars

\* C8: from available slots that are pairwise disjoint and not day-adjacent,
\* a successful reservation of a range covered by one slot followed at once
\* by a successful cancel of it restores exactly the original set of
\* available slot ranges.
C8_ReserveThenCancelRestoresSlots ==
    call.op = "cancel"
    => /\ Ranges(Available(slots)) = Ranges(Available(orig))
       /\ Cardinality(Available(slots)) = Cardinality(Available(orig))

C8_Witness ==
    /\ call.op = "cancel"
    /\ Cardinality(orig) = 1
    /\ \E s \in orig : s.start_date < call.reserved_from /\ call.reserved_to < s.end_date
    /\ Ranges(Available(slots)) = Ranges(Available(orig))

(***************************************************************************)
(* Claims about the reservation requests, in every reachable state         *)
(***************************************************************************)
HasCoveringSlot(a, f, t) ==
    \E s \in slots : s.acc = a /\ s.is_available /\ s.start_date <= f /\ t <= s.end_date

\* C9: reserve and reservation create persist a reservation only if an
\* available slot with start_date <= reserved_from and end_date >=
\* reserved_to exists at the time of the request; without one (also with no
\* available slot at all) the attempt fails and creates no reservation.
C9_ReservationOnlyWithCoveringSlot ==
    \A a \in Accs, m \in Members, f \in Days, t \in Days :
        accommodations[a].exists
        => LET r1 == reserve(Db, a, m, f, t)
           IN  /\ (r1.ok \/ r1.db.res # reservations) => HasCoveringSlot(a, f, t)
               /\ ~HasCoveringSlot(a, f, t) => (~r1.ok /\ r1.db.res = reservations)
               /\ \A st \in PayloadStatuses :
                     LET r2 == reservation_create(Db, a, m, f, t, st)
                     IN  /\ (r2.ok \/ r2.db.res # reservations)
                              => HasCoveringSlot(a, f, t)
                         /\ ~HasCoveringSlot(a, f, t)
                              => (~r2.ok /\ r2.db.res = reservations)

C9_Witness ==
    /\ \E r \in reservations : r.status = "PENDING" /\ r.acc = 1
    /\ AvailableSlots(Db, 1) = {}
    /\ ~accommodations[1].is_available
    /\ ~reserve(Db, 1, 1, Today, Today).ok
    /\ ~reservation_create(Db, 1, 1, Today, Today, "PENDING").ok

\* C10: a rejected reservation attempt (date order, minimum stay, past start,
\* other university, overlapping active reservation, accommodation flagged
\* unavailable, no covering slot) leaves the slots, the is_available flag
\* and the reservations exactly as they were.
C10_RejectedAttemptChangesNothing ==
    \A a \in Accs, m \in Members, f \in Days, t \in Days :
        accommodations[a].exists
        => /\ ~reserve(Db, a, m, f, t).ok => reserve(Db, a, m, f, t).db = Db
           /\ \A st \in PayloadStatuses :
                 ~reservation_create(Db, a, m, f, t, st).ok
                    => reservation_create(Db, a, m, f, t, st).db = Db

RejectedFor(why) ==
    \E m \in Members, f \in Days, t \in Days :
        \/ reserve(Db, 1, m, f, t).why = why
        \/ reservation_create(Db, 1, m, f, t, "PENDING").why = why

C10_Witness ==
    /\ accommodations[1].exists
    /\ reservations # {}
    /\ slots # {}
    /\ RejectedFor("overlap")
    /\ RejectedFor("past")
    /\ RejectedFor("min_days")
    /\ RejectedFor("university")
    /\ RejectedFor("date_order")
    /\ RejectedFor("not_available")

(***************************************************************************)
(* Two reservation requests in flight on one accommodation.  The views run *)
(* without a transaction, so the requests interleave between their         *)
(* database accesses: validation, covering-slot lookup, split, delete of   *)
(* the original slot, save of the reservation, availability update.        *)
(***************************************************************************)
Procs == {1, 2}

InitConc ==
    \E md \in 1..MaxMinDays :
      \E f \in [Procs -> Days], t \in [Procs -> Days],
         path \in [Procs -> {"reserve", "reservation_create"}] :
        /\ accommodations = OneAccommodation(TRUE, md)
        /\ slots = {[id |-> 1, acc |-> 1, start_date |-> 0, end_date |-> MaxDay,
                     is_available |-> TRUE]}
        /\ reservations = {}
        /\ nextSlotId = 2
        /\ nextResId = 1
        /\ call = NoCall
        /\ orig = slots
        /\ procs = [p \in Procs |->
                      [pc |-> "validate", path |-> path[p], acc |-> 1, member |-> 1,
                       reserved_from |-> f[p], reserved_to |-> t[p],
                       memA |-> FALSE, slot |-> None, memB |-> FALSE]]

\* reserve: get_object, the is_available test, the university test,
\* is_available_for_dates and serializer.is_valid();
\* create: serializer.is_valid(raise_exception=True)
ConcValidate(p) ==
    LET q == procs[p]
        memA == Stored(Db, q.acc)
        pass ==
            IF q.path = "reserve"
            THEN /\ memA
                 /\ MemberUniversity(q.member) \in AccUniversities(q.acc)
                 /\ is_available_for_dates(Db, q.acc, memA, q.reserved_from, q.reserved_to)
                 /\ validate(Db, q.acc, q.member, q.reserved_from, q.reserved_to) = "ok"
            ELSE validate(Db, q.acc, q.member, q.reserved_from, q.reserved_to) = "ok"
    IN  /\ q.pc = "validate"
        /\ procs' = [procs EXCEPT ![p].pc = IF pass THEN "lookup" ELSE "rejected",
                                  ![p].memA = memA]
        /\ UNCHANGED <<accommodations, slots, reservations, nextSlotId, nextResId,
                       call, orig>>

\* create: Accommodation.objects.get and is_available_for_dates;
\* both: AvailabilitySlot.objects.filter(...).first()
ConcLookup(p) ==
    LET q == procs[p]
        memA == IF q.path = "reserve" THEN q.memA ELSE Stored(Db, q.acc)
        pass == q.path = "reserve" \/
                is_available_for_dates(Db, q.acc, memA, q.reserved_from, q.reserved_to)
        slot == covering_slot(Db, q.acc, q.reserved_from, q.reserved_to)
    IN  /\ q.pc = "lookup"
        /\ procs' = [procs EXCEPT ![p].pc = IF pass /\ slot.id # 0 THEN "split"
                                            ELSE "rejected",
                                  ![p].memA = memA,
                                  ![p].slot = slot]
        /\ UNCHANGED <<accommodations, slots, reservations, nextSlotId, nextResId,
                       call, orig>>

\* slot.split_slot(reserved_from, reserved_to)
ConcSplit(p) ==
    LET q == procs[p]
        sp == split_slot(Db, q.slot, q.reserved_from, q.reserved_to)
    IN  /\ q.pc = "split"
        /\ SetDb(sp.db)
        /\ procs' = [procs EXCEPT ![p].pc = "delete",
                                  ![p].memB = IF sp.before_slot.id # 0 \/ sp.after_slot.id # 0
                                              THEN TRUE ELSE Stored(sp.db, q.acc)]
        /\ UNCHANGED <<call, orig>>

\* slot.delete()
ConcDelete(p) ==
    LET q == procs[p]
    IN  /\ q.pc = "delete"
        /\ SetDb(slot_delete(Db, q.slot, q.memB))
        /\ procs' = [procs EXCEPT ![p].pc = "save"]
        /\ UNCHANGED <<call, orig>>

\* reservation = serializer.save()
ConcSave(p) ==
    LET q == procs[p]
    IN  /\ q.pc = "save"
        /\ SetDb(reservation_save(Db, q.acc, q.member, q.reserved_from, q.reserved_to,
                                  "PENDING"))
        /\ procs' = [procs EXCEPT ![p].pc = "finish"]
        /\ UNCHANGED <<call, orig>>

\* the availability update that ends the view
ConcFinish(p) ==
    LET q == procs[p]
    IN  /\ q.pc = "finish"
        /\ SetDb(IF q.path = "reserve"
                 THEN update_availability_status(Db, q.acc, q.memA)
                 ELSE IF AvailableSlots(Db, q.acc) = {}
                      THEN [Db EXCEPT !.acc[q.acc].is_available = FALSE]
                      ELSE Db)
        /\ procs' = [procs EXCEPT ![p].pc = "done"]
        /\ UNCHANGED <<call, orig>>

NextConc ==
    \E p \in Procs :
        \/ ConcValidate(p)
        \/ ConcLookup(p)
        \/ ConcSplit(p)
        \/ ConcDelete(p)
        \/ ConcSave(p)
        \/ ConcFinish(p)

SpecConc == InitConc /\ [][NextConc]_vars

Persisted(p) == procs[p].pc \in {"finish", "done"}

RequestDays(p) == DaysOf(procs[p].reserved_from, procs[p].reserved_to)

\* C2: of two concurrent reservation requests on the same accommodation
\* whose date ranges share a day, at most one ends with a persisted
\* reservation, under every interleaving of their steps.
C2_AtMostOneOverlappingRequestPersists ==
    (RequestDays(1) \cap RequestDays(2) # {})
        => ~(Persisted(1) /\ Persisted(2))

(***************************************************************************)
(* Cancel attempts that must fail                                          *)
(***************************************************************************)
\* What a cancel attempt can touch: the reservation rows, the slot rows and
\* the accommodation's flag
Untouched(res) ==
    /\ ~res.ok
    /\ res.db.res = reservations
    /\ res.db.slots = slots
    /\ res.db.acc = accommodations

\* C11: cancelling a reservation that is already CANCELLED, through
\* Reservation.cancel() or the cancel endpoint, fails and leaves the
\* reservation status, the slot set and the is_available flag unchanged.
C11_CancelOfCancelledFailsUnchanged ==
    \A r \in reservations, ord \in TieOrders :
        r.status = "CANCELLED" =>
            /\ Untouched(cancel(Db, r, ord))
            /\ Untouched(cancel_view(Db, r, ord))

\* A cancelled reservation whose days are not covered by any available slot
\* (so a second cancel that went through would show in the slot set)
C11_Witness ==
    \E r \in reservations :
        /\ r.status = "CANCELLED"
        /\ ~HasCoveringSlot(r.acc, r.reserved_from, r.reserved_to)
        /\ ~cancel_view(Db, r, "asc").ok

\* C12: cancelling a CONFIRMED or COMPLETED reservation, through
\* Reservation.cancel(), the cancel endpoint or update-status with status
\* CANCELLED, fails and leaves the reservation status, the slot set and the
\* is_available flag unchanged.
C12_CancelOfConfirmedOrCompletedFailsUnchanged ==
    \A r \in reservations, ord \in TieOrders :
        r.status \in {"CONFIRMED", "COMPLETED"} =>
            /\ Untouched(cancel(Db, r, ord))
            /\ Untouched(cancel_view(Db, r, ord))
            /\ Untouched(update_status(Db, r, "CANCELLED", ord))

\* A state with a CONFIRMED and a COMPLETED reservation, both refused
C12_Witness ==
    \E r1 \in reservations, r2 \in reservations :
        /\ r1.status = "CONFIRMED"
        /\ r2.status = "COMPLETED"
        /\ ~update_status(Db, r1, "CANCELLED", "asc").ok
        /\ ~cancel_view(Db, r2, "asc").ok

(***************************************************************************)
(* Successful cancel                                                       *)
(***************************************************************************)
StatusIn(db, r) == (CHOOSE x \in db.res : x.id = r.id).status

CoveredDays(db, a) == UNION {SlotDays(s) : s \in AvailableSlots(db, a)}

Restored(res, r) ==
    /\ res.ok
    /\ StatusIn(res.db, r) = "CANCELLED"
    /\ DaysOf(r.reserved_from, r.reserved_to) \subseteq CoveredDays(res.db, r.acc)
    /\ Stored(res.db, r.acc)

\* C13: after a successful cancel of a PENDING reservation its status is
\* CANCELLED, every day of [reserved_from, reserved_to] is covered by an
\* available slot of the accommodation, and is_available is true whatever it
\* was before.
C13_CancelRestoresAvailability ==
    \A r \in reservations, ord \in TieOrders :
        r.status = "PENDING" =>
            /\ Restored(cancel(Db, r, ord), r)
            /\ Restored(cancel_view(Db, r, ord), r)
            /\ Restored(update_status(Db, r, "CANCELLED", ord), r)

(***************************************************************************)
(* Reservation status                                                      *)
(***************************************************************************)
TerminalStatuses == {"CANCELLED", "COMPLETED"}

AllowedTransitions ==
    {<<"PENDING", "CONFIRMED">>, <<"PENDING", "CANCELLED">>,
     <<"CONFIRMED", "COMPLETED">>}

\* C14: once a reservation's status is CANCELLED or COMPLETED, no operation
\* (cancel, update-status, admin actions) changes its status again.
C14_TerminalStatusNeverChanges ==
    [][\A r \in reservations : \A x \in reservations' :
          (r.status \in TerminalStatuses /\ x.id = r.id) => x.status = r.status]_vars

\* C15: every status change of a reservation is one of PENDING->CONFIRMED,
\* PENDING->CANCELLED or CONFIRMED->COMPLETED.
C15_OnlyAllowedTransitions ==
    [][\A r \in reservations : \A x \in reservations' :
          (x.id = r.id /\ x.status # r.status) =>
              <<r.status, x.status>> \in AllowedTransitions]_vars

\* The row a successful creation has just inserted
CreatedRow(res) == CHOOSE x \in res.db.res : x.id = nextResId

\* C16: every reservation persisted by the reserve endpoint or by reservation
\* create, whatever the payload (a status field included), has status PENDING
\* right after creation.
C16_CreatedReservationIsPending ==
    \A a \in Accs, m \in Members, f \in Days, t \in Days :
        accommodations[a].exists =>
            /\ LET res == reserve(Db, a, m, f, t)
               IN  res.ok => CreatedRow(res).status = "PENDING"
            /\ \A st \in PayloadStatuses :
                   LET res == reservation_create(Db, a, m, f, t, st)
                   IN  res.ok => CreatedRow(res).status = "PENDING"

(***************************************************************************)
(* The is_available flag against the slot set                              *)
(***************************************************************************)
\* C17: between operations, an accommodation whose is_available flag is true
\* has at least one slot flagged available (one with no available slot,
\* also one just created without an initial period, has is_available false).
C17_FlagTrueImpliesAvailableSlot ==
    \A a \in Accs :
        (accommodations[a].exists /\ Stored(Db, a)) => AvailableSlots(Db, a) # {}

\* C18: between operations, an accommodation that owns at least one slot
\* flagged available has is_available = true.
C18_AvailableSlotImpliesFlagTrue ==
    \A a \in Accs :
        (accommodations[a].exists /\ AvailableSlots(Db, a) # {}) => Stored(Db, a)

FlagMatchesSlots(res, a) ==
    res.ok => (Stored(res.db, a) <=> AvailableSlots(res.db, a) # {})

\* C19: after every successful reservation through either creation path,
\* is_available equals 'some available slot remains': a reservation of
\* exactly the only available slot leaves no slot and a false flag, one that
\* leaves a residual keeps the flag true.
C19_FlagAfterReservation ==
    \A a \in Accs, m \in Members, f \in Days, t \in Days :
        accommodations[a].exists =>
            /\ FlagMatchesSlots(reserve(Db, a, m, f, t), a)
            /\ \A st \in PayloadStatuses :
                   FlagMatchesSlots(reservation_create(Db, a, m, f, t, st), a)

\* Both cases at once: a single available slot of two days from which one
\* reservation takes everything (flag false) and another leaves a residual
\* (flag true), through both paths
C19_Witness ==
    \E a \in Accs, m \in Members, f \in Days, t \in Days :
        /\ accommodations[a].exists
        /\ AvailableSlots(Db, a) = slots
        /\ Ranges(slots) = {<<f, t>>}
        /\ f < t
        /\ LET all  == reserve(Db, a, m, f, t)
               part == reservation_create(Db, a, m, f, f, "PENDING")
           IN  /\ all.ok /\ AvailableSlots(all.db, a) = {} /\ ~Stored(all.db, a)
               /\ part.ok /\ AvailableSlots(part.db, a) # {} /\ Stored(part.db, a)
               /\ reservation_create(Db, a, m, f, t, "PENDING").ok
               /\ reserve(Db, a, m, f, f).ok

(***************************************************************************)
(* A cancel request (process 1) and a reservation request (process 2) on   *)
(* the same accommodation, interleaved statement by statement: the views   *)
(* open no transaction and take no lock                                    *)
(***************************************************************************)
Canceller == 1

Creator == 2

\* Slot sets the sequential program leaves next to a PENDING reservation:
\* available, start_date <= end_date, merged, and away from the reserved days
InitCC ==
    \E md \in 1..MaxMinDays, rf \in Days, rt \in Days, f \in Days, t \in Days,
       path \in {"reserve", "reservation_create"},
       shapes \in SUBSET {sh \in SlotShapes : sh.is_available /\ sh.start_date <= sh.end_date} :
        /\ rf <= rt /\ Today <= rf /\ md <= (rt - rf) + 1
        /\ Cardinality(shapes) <= MaxSlots
        /\ \A x \in shapes : DaysOf(x.start_date, x.end_date) \cap DaysOf(rf, rt) = {}
        /\ \A x \in shapes, y \in shapes :
               x # y => DaysOf(x.start_date, x.end_date + 1) \cap SlotDays(y) = {}
        /\ accommodations = OneAccommodation(shapes # {}, md)
        /\ slots = Renumber({MkSlot(sh.start_date + 1, 1, sh) :
                                sh \in shapes})
        /\ reservations = {[id |-> 1, acc |-> 1, member |-> 1, reserved_from |-> rf,
                            reserved_to |-> rt, status |-> "PENDING"]}
        /\ nextSlotId = Cardinality(shapes) + 1
        /\ nextResId = 2
        /\ call = [op |-> "cancel_and_create", db |-> Db]
        /\ orig = slots
        /\ procs = [p \in Procs |->
                      IF p = Canceller
                      THEN [pc |-> "load", r |-> CHOOSE r \in reservations : TRUE,
                            acc |-> 1, memA |-> FALSE, cached |-> FALSE, L |-> <<>>,
                            i |-> 0, current |-> None, next_slot |-> None]
                      ELSE [pc |-> "validate", path |-> path, acc |-> 1, member |-> 1,
                            reserved_from |-> f, reserved_to |-> t,
                            memA |-> FALSE, slot |-> None, memB |-> FALSE]]

\* views.cancel: get_object, is_cancelled / can_be_cancelled,
\* accommodation = reservation.accommodation
CancelLoad ==
    LET q == procs[Canceller]
        r == CHOOSE x \in reservations : x.id = q.r.id
    IN  /\ q.pc = "load"
        /\ procs' = [procs EXCEPT ![Canceller].pc =
                                      IF is_cancelled(r) \/ ~can_be_cancelled(r)
                                      THEN "rejected" ELSE "status",
                                  ![Canceller].r = r,
                                  ![Canceller].memA = Stored(Db, q.acc)]
        /\ UNCHANGED <<accommodations, slots, reservations, nextSlotId, nextResId,
                       call, orig>>

\* Reservation.cancel: self.status = 'CANCELLED'; self.save()
CancelSetStatus ==
    LET q == procs[Canceller]
    IN  /\ q.pc = "status"
        /\ SetDb(set_status(Db, q.r, "CANCELLED"))
        /\ procs' = [procs EXCEPT ![Canceller].pc = "insert"]
        /\ UNCHANGED <<call, orig>>

\* Reservation.cancel: AvailabilitySlot.objects.create(...)
CancelInsert ==
    LET q == procs[Canceller]
    IN  /\ q.pc = "insert"
        /\ SetDb(slot_create(Db, q.acc, q.r.reserved_from, q.r.reserved_to, TRUE,
                             q.memA))
        /\ procs' = [procs EXCEPT ![Canceller].pc = "scan"]
        /\ UNCHANGED <<call, orig>>

\* merge_adjacent_slots: `if not slots` evaluates and caches the queryset
CancelScan ==
    \E ord \in TieOrders :
        LET q == procs[Canceller]
            L == get_available_slots(Db, q.acc, ord)
        IN  /\ q.pc = "scan"
            /\ procs' = [procs EXCEPT ![Canceller].pc =
                                          IF Len(L) <= 1 THEN "flag" ELSE "loop",
                                      ![Canceller].L = L,
                                      ![Canceller].cached = TRUE,
                                      ![Canceller].i = 0]
            /\ UNCHANGED <<accommodations, slots, reservations, nextSlotId,
                           nextResId, call, orig>>

\* merge_adjacent_slots: one test of the while condition and of adjacency;
\* the cached queryset answers from memory, a refreshed one from the database
CancelLoop ==
    \E ord \in TieOrders :
        LET q == procs[Canceller]
            L == IF q.cached THEN q.L ELSE get_available_slots(Db, q.acc, ord)
        IN  /\ q.pc = "loop"
            /\ IF ~(q.i < Len(L) - 1)
               THEN procs' = [procs EXCEPT ![Canceller].pc = "flag"]
               ELSE IF is_adjacent(L[q.i + 1], L[q.i + 2])
                    THEN procs' = [procs EXCEPT ![Canceller].pc = "merge_save",
                                                ![Canceller].current = L[q.i + 1],
                                                ![Canceller].next_slot = L[q.i + 2]]
                    ELSE procs' = [procs EXCEPT ![Canceller].i = q.i + 1]
            /\ UNCHANGED <<accommodations, slots, reservations, nextSlotId,
                           nextResId, call, orig>>

\* merge_adjacent_slots: current.end_date = next_slot.end_date; current.save()
CancelMergeSave ==
    LET q == procs[Canceller]
    IN  /\ q.pc = "merge_save"
        /\ SetDb(slot_save(Db, [q.current EXCEPT !.end_date = q.next_slot.end_date],
                           Stored(Db, q.acc)))
        /\ procs' = [procs EXCEPT ![Canceller].pc = "merge_delete"]
        /\ UNCHANGED <<call, orig>>

\* merge_adjacent_slots: next_slot.delete() and the queryset refresh
CancelMergeDelete ==
    LET q == procs[Canceller]
    IN  /\ q.pc = "merge_delete"
        /\ SetDb(slot_delete(Db, q.next_slot, Stored(Db, q.acc)))
        /\ procs' = [procs EXCEPT ![Canceller].pc = "loop",
                                  ![Canceller].cached = FALSE,
                                  ![Canceller].L = <<>>,
                                  ![Canceller].current = None,
                                  ![Canceller].next_slot = None]
        /\ UNCHANGED <<call, orig>>

\* views.cancel: accommodation.update_availability_status() on the object
\* the inserted slot has already refreshed to True
CancelFlag ==
    LET q == procs[Canceller]
    IN  /\ q.pc = "flag"
        /\ SetDb(update_availability_status(Db, q.acc, TRUE))
        /\ procs' = [procs EXCEPT ![Canceller].pc = "done"]
        /\ UNCHANGED <<call, orig>>

NextCC ==
    \/ CancelLoad
    \/ CancelSetStatus
    \/ CancelInsert
    \/ CancelScan
    \/ CancelLoop
    \/ CancelMergeSave
    \/ CancelMergeDelete
    \/ CancelFlag
    \/ ConcValidate(Creator)
    \/ ConcLookup(Creator)
    \/ ConcSplit(Creator)
    \/ ConcDelete(Creator)
    \/ ConcSave(Creator)
    \/ ConcFinish(Creator)

SpecCC == InitCC /\ [][NextCC]_vars

Finished(p) == procs[p].pc \in {"done", "rejected"}

CreateRequest(db) ==
    LET q == procs[Creator]
    IN  IF q.path = "reserve"
        THEN reserve(db, q.acc, q.member, q.reserved_from, q.reserved_to)
        ELSE reservation_create(db, q.acc, q.member, q.reserved_from, q.reserved_to,
                                "PENDING")

CancelRequest(db, ord) ==
    cancel_view(db, CHOOSE x \in db.res : x.id = procs[Canceller].r.id, ord)

\* The slot ranges the two serial orders can end with
SerialOutcomes ==
    {Ranges(CreateRequest(CancelRequest(call.db, ord).db).db.slots) : ord \in TieOrders}
    \cup
    {Ranges(CancelRequest(CreateRequest(call.db).db, ord).db.slots) : ord \in TieOrders}

\* C20: when a cancel and a reservation create run concurrently on the same
\* accommodation, under every interleaving of their steps the final slot
\* set is the slot set of one of the two serial orders.
C20_CancelAndCreateSerialize ==
    (Finished(Canceller) /\ Finished(Creator)) => Ranges(slots) \in SerialOutcomes

(***************************************************************************)
(* Status updates other than to CANCELLED                                  *)
(***************************************************************************)
\* C21: a status update to a value other than CANCELLED, from any prior
\* status, leaves the accommodation's slot set and is_available flag
\* unchanged.
C21_StatusUpdateLeavesSlotsAlone ==
    \A r \in reservations, st \in Statuses \ {"CANCELLED"}, ord \in TieOrders :
        LET res == update_status(Db, r, st, ord)
        IN  /\ res.db.slots = slots
            /\ res.db.acc = accommodations

\* A PENDING reservation over days no available slot covers is confirmed:
\* a slot side effect of the update would show
C21_Witness ==
    \E r \in reservations :
        /\ r.status = "PENDING"
        /\ ~HasCoveringSlot(r.acc, r.reserved_from, r.reserved_from)
        /\ update_status(Db, r, "CONFIRMED", "asc").ok
        /\ StatusIn(update_status(Db, r, "CONFIRMED", "asc").db, r) = "CONFIRMED"

(***************************************************************************)
(* Rejections of the creation protocol                                     *)
(***************************************************************************)
Length(f, t) == (t - f) + 1

\* C22: a request whose inclusive length is below min_reservation_days is
\* rejected by both creation paths; one whose length equals
\* min_reservation_days is not rejected for its length (a rejection then has
\* another cause: not for min_days, and 'not available' only with a false
\* flag or without a covering slot).
C22_MinimumStay ==
    \A a \in Accs, m \in Members, f \in Days, t \in Days, st \in PayloadStatuses :
        accommodations[a].exists =>
            LET r1 == reserve(Db, a, m, f, t)
                r2 == reservation_create(Db, a, m, f, t, st)
                md == accommodations[a].min_reservation_days
                noLengthCause(res) ==
                    /\ res.why # "min_days"
                    /\ res.why = "not_available"
                          => (~Stored(Db, a) \/ ~HasCoveringSlot(a, f, t))
            IN  /\ Length(f, t) < md => (~r1.ok /\ ~r2.ok)
                /\ Length(f, t) = md => (noLengthCause(r1) /\ noLengthCause(r2))

\* min_reservation_days = 2 with a covering slot: two days pass on both
\* paths, one day is refused on both
C22_Witness ==
    \E a \in Accs, m \in Members, f \in Days :
        /\ accommodations[a].exists
        /\ accommodations[a].min_reservation_days = 2
        /\ reserve(Db, a, m, f, f + 1).ok
        /\ reservation_create(Db, a, m, f, f + 1, "PENDING").ok
        /\ ~reserve(Db, a, m, f, f).ok
        /\ reservation_create(Db, a, m, f, f, "PENDING").why = "min_days"

\* C23: a request by a member whose university is not among the
\* accommodation's universities is rejected by both creation paths, also
\* when an available slot covers the dates, and creates no reservation and
\* changes no slot.
C23_OtherUniversityRejected ==
    \A a \in Accs, m \in Members, f \in Days, t \in Days, st \in PayloadStatuses :
        (accommodations[a].exists /\ MemberUniversity(m) \notin AccUniversities(a)) =>
            LET r1 == reserve(Db, a, m, f, t)
                r2 == reservation_create(Db, a, m, f, t, st)
            IN  /\ ~r1.ok /\ r1.db.res = reservations /\ r1.db.slots = slots
                /\ ~r2.ok /\ r2.db.res = reservations /\ r2.db.slots = slots

\* The same dates are accepted for a member of the accommodation's
\* university and refused for a member of another one
C23_Witness ==
    \E a \in Accs, m1 \in Members, m2 \in Members, f \in Days, t \in Days :
        /\ accommodations[a].exists
        /\ MemberUniversity(m2) \notin AccUniversities(a)
        /\ reserve(Db, a, m1, f, t).ok
        /\ reservation_create(Db, a, m1, f, t, "PENDING").ok
        /\ reserve(Db, a, m2, f, t).why = "university"
        /\ reservation_create(Db, a, m2, f, t, "PENDING").why = "university"

(***************************************************************************)
(* Deleting an accommodation                                               *)
(***************************************************************************)
ActiveReservations(a) ==
    {r \in reservations : r.acc = a /\ r.status \in {"PENDING", "CONFIRMED"}}

\* C26: deleting an accommodation with a PENDING or CONFIRMED reservation
\* is rejected and the accommodation, its slots and its reservations still
\* exist; deletion succeeds only when no such reservation references it.
C26_DestroyNeedsNoActiveReservation ==
    \A a \in Accs :
        accommodations[a].exists =>
            LET res == destroy(Db, a)
            IN  /\ ActiveReservations(a) # {} => (~res.ok /\ res.db = Db)
                /\ res.ok => ActiveReservations(a) = {}
                /\ ActiveReservations(a) = {} =>
                      /\ res.ok
                      /\ ~res.db.acc[a].exists
                      /\ {x \in res.db.slots : x.acc = a} = {}
                      /\ {x \in res.db.res : x.acc = a} = {}

\* Only a CONFIRMED reservation (beside a cancelled one) holds the
\* accommodation, which still has a slot
C26_Witness ==
    \E a \in Accs :
        /\ accommodations[a].exists
        /\ \E r \in ActiveReservations(a) : r.status = "CONFIRMED"
        /\ \A r \in ActiveReservations(a) : r.status = "CONFIRMED"
        /\ \E s \in slots : s.acc = a
        /\ ~destroy(Db, a).ok

(***************************************************************************)
(* Slot ranges and reserved days                                           *)
(***************************************************************************)
\* C24: every availability slot in every reachable state has
\* start_date <= end_date, however it was created (initial period,
\* add-availability, split residual, cancellation, merge).
C24_SlotRangesAreOrdered ==
    \A s \in slots : s.start_date <= s.end_date

\* C25: after a successful add-availability request for [start, end], every
\* day of [start, end] is covered by an available slot of the accommodation
\* and the accommodation's is_available flag is true.
C25_AddedDaysAreAvailable ==
    \A a \in Accs, start_date \in Days, end_date \in Days, ord \in TieOrders :
        accommodations[a].exists =>
            LET res == add_availability(Db, a, start_date, end_date, ord)
            IN  res.ok =>
                  /\ DaysOf(start_date, end_date) \subseteq CoveredDays(res.db, a)
                  /\ Stored(res.db, a)

ReservedDays(r) == DaysOf(r.reserved_from, r.reserved_to)

\* C27: no two PENDING or CONFIRMED reservations of the same accommodation
\* share a calendar day (inclusive ranges).
C27_ActiveReservationsShareNoDay ==
    \A a \in Accs : \A r1 \in ActiveReservations(a), r2 \in ActiveReservations(a) :
        r1.id # r2.id => ReservedDays(r1) \cap ReservedDays(r2) = {}

\* C28: between operations, no day of a PENDING or CONFIRMED reservation is
\* covered by an available slot of the same accommodation.
C28_ReservedDaysAreNotAvailable ==
    \A a \in Accs : \A r \in ActiveReservations(a) :
        ReservedDays(r) \cap CoveredDays(Db, a) = {}

(***************************************************************************)
(* One reservation, its cancel and update-status requests one at a time,   *)
(* and the number of cancels that succeeded; the flag starts at either     *)
(* value (mark_unavailable, or a create payload, can have set it)          *)
(***************************************************************************)
InitCancels ==
    \E md \in 1..MaxMinDays, av \in BOOLEAN, rf \in Days, rt \in Days,
       shapes \in SUBSET {sh \in SlotShapes :
                            sh.is_available /\ sh.start_date <= sh.end_date} :
        /\ rf <= rt /\ Today <= rf /\ md <= (rt - rf) + 1
        /\ Cardinality(shapes) <= MaxSlots
        /\ \A x \in shapes : DaysOf(x.start_date, x.end_date) \cap DaysOf(rf, rt) = {}
        /\ \A x \in shapes, y \in shapes :
               x # y => DaysOf(x.start_date, x.end_date + 1) \cap SlotDays(y) = {}
        /\ accommodations = OneAccommodation(av, md)
        /\ slots = Renumber({MkSlot(sh.start_date + 1, 1, sh) : sh \in shapes})
        /\ reservations = {[id |-> 1, acc |-> 1, member |-> 1, reserved_from |-> rf,
                            reserved_to |-> rt, status |-> "PENDING"]}
        /\ nextSlotId = Cardinality(shapes) + 1
        /\ nextResId = 2
        /\ call = [op |-> "cancels", n |-> 0]
        /\ orig = slots
        /\ procs = <<>>

CountedCancel ==
    \E r \in reservations, ord \in TieOrders :
        LET res == cancel_view(Db, r, ord)
        IN  /\ call.n < MaxCancels
            /\ SetDb(res.db)
            /\ call' = [call EXCEPT !.n = IF res.ok THEN @ + 1 ELSE @]
            /\ UNCHANGED <<orig, procs>>

CountedUpdateStatus ==
    \E r \in reservations, st \in Statuses, ord \in TieOrders :
        LET res == update_status(Db, r, st, ord)
        IN  /\ call.n < MaxCancels
            /\ SetDb(res.db)
            /\ call' = [call EXCEPT !.n = IF res.ok /\ st = "CANCELLED"
                                              /\ r.status # "CANCELLED"
                                           THEN @ + 1 ELSE @]
            /\ UNCHANGED <<orig, procs>>

NextCancels ==
    \/ CountedCancel
    \/ CountedUpdateStatus

SpecCancels == InitCancels /\ [][NextCancels]_vars

\* C29: for any one reservation a cancel succeeds at most once over the
\* whole execution, so its date range is handed back to the slot store at
\* most once, also when update-status is applied between cancel attempts.
C29_CancelSucceedsAtMostOnce ==
    call.n <= 1

(***************************************************************************)
(* What merge_adjacent_slots leaves behind                                 *)
(***************************************************************************)
\* C30: when merge_adjacent_slots returns, no two available slots a, b of
\* the accommodation have a.end_date + 1 day = b.start_date, for every input
\* set of available slots (here: every set of slots with
\* start_date <= end_date, overlapping ones and shared start dates included).
C30_NoAdjacentPairAfterMerge ==
    (call.op = "merge_adjacent_slots" /\ \A s \in orig : ValidRange(s))
    => \A x \in Available(slots), y \in Available(slots) :
          x.id # y.id => x.end_date + 1 # y.start_date

(***************************************************************************)
(* merge_adjacent_slots one loop iteration at a time, on any stored slot   *)
(* set                                                                     *)
(***************************************************************************)
InitMerge ==
    \E n \in 0..MaxUnitSlots, av \in BOOLEAN :
        \E shapes \in [1..n -> SlotShapes] :
            /\ accommodations = OneAccommodation(av, 1)
            /\ slots = {MkSlot(i, 1, shapes[i]) : i \in 1..n}
            /\ reservations = {}
            /\ nextSlotId = n + 1
            /\ nextResId = 1
            /\ call = [op |-> "merge_adjacent_slots", acc |-> 1]
            /\ orig = slots
            /\ procs = [pc |-> "start", cached |-> FALSE, L |-> <<>>, i |-> 0]

\* slots = ...order_by('start_date'); if not slots or slots.count() <= 1: return
MergeStart ==
    \E ord \in TieOrders :
        LET L == get_available_slots(Db, call.acc, ord)
        IN  /\ procs.pc = "start"
            /\ procs' = [pc |-> IF Len(L) <= 1 THEN "returned" ELSE "loop",
                         cached |-> TRUE, L |-> L, i |-> 0]
            /\ UNCHANGED <<accommodations, slots, reservations, nextSlotId,
                           nextResId, call, orig>>

\* one pass through the body of the while loop
MergeIteration ==
    \E ord \in TieOrders :
        LET L == IF procs.cached THEN procs.L
                 ELSE get_available_slots(Db, call.acc, ord)
        IN  /\ procs.pc = "loop"
            /\ procs.i < Len(L) - 1
            /\ IF is_adjacent(L[procs.i + 1], L[procs.i + 2])
               THEN /\ SetDb(merged_db(Db, call.acc, L[procs.i + 1], L[procs.i + 2]))
                    /\ procs' = [procs EXCEPT !.cached = FALSE, !.L = <<>>]
               ELSE /\ procs' = [procs EXCEPT !.i = @ + 1]
                    /\ UNCHANGED <<accommodations, slots, reservations, nextSlotId,
                                   nextResId>>
            /\ UNCHANGED <<call, orig>>

\* the while condition fails
MergeReturn ==
    \E ord \in TieOrders :
        LET L == IF procs.cached THEN procs.L
                 ELSE get_available_slots(Db, call.acc, ord)
        IN  /\ procs.pc = "loop"
            /\ ~(procs.i < Len(L) - 1)
            /\ procs' = [procs EXCEPT !.pc = "returned"]
            /\ UNCHANGED <<accommodations, slots, reservations, nextSlotId,
                           nextResId, call, orig>>

NextMerge ==
    \/ MergeStart
    \/ MergeIteration
    \/ MergeReturn

\* the loop runs to completion once called: nothing suspends it
SpecMerge == InitMerge /\ [][NextMerge]_vars /\ WF_vars(NextMerge)

IterationProgress ==
    (procs.pc = "loop" /\ procs'.pc = "loop") =>
        \/ /\ Cardinality(slots') = Cardinality(slots) - 1
           /\ procs'.i = procs.i
        \/ /\ slots' = slots
           /\ procs'.i = procs.i + 1

\* C31: merge_adjacent_slots terminates for every finite set of slots: each
\* loop iteration either removes one slot or advances the scan index, and
\* the scan ends.
C31_MergeTerminates ==
    /\ [][IterationProgress]_vars
    /\ <>(procs.pc = "returned")

\* A run that has gone through the loop and merged three slots into one
C31_Witness ==
    /\ procs.pc = "returned"
    /\ Cardinality(orig) = 3
    /\ \A s \in orig : s.is_available
    /\ Cardinality(slots) = 1

(***************************************************************************)
(* Frame and determinism of merge_adjacent_slots                           *)
(***************************************************************************)
AvailableDays(S) == UNION {SlotDays(s) : s \in Available(S)}

\* C32: merge_adjacent_slots never changes the set of calendar days covered
\* by the accommodation's available slots, never increases the number of
\* slots, and never modifies or deletes a slot flagged unavailable.
C32_MergeKeepsCoveredDays ==
    call.op = "merge_adjacent_slots"
    => /\ AvailableDays(slots) = AvailableDays(orig)
       /\ Cardinality(slots) <= Cardinality(orig)
       /\ {s \in slots : ~s.is_available} = {s \in orig : ~s.is_available}

\* C33: the result of merge_adjacent_slots is determined by the set of slot
\* ranges alone: two runs on the same available slots that differ only in
\* how the query orders slots with equal start_date end with the same set
\* of slot ranges (stated for slots with start_date <= end_date).
C33_MergeIgnoresTieOrder ==
    (call.op = "none" /\ \A s \in slots : ValidRange(s))
    => \A a \in Accs :
          Ranges(Available(merge_adjacent_slots(Db, a, "asc").slots))
            = Ranges(Available(merge_adjacent_slots(Db, a, "desc").slots))

(***************************************************************************)
(* What split_slot touches, and the order of the reserve sequence          *)
(***************************************************************************)
SplitOnlyAdds ==
    \A slot \in slots, f \in Days, t \in Days :
        LET sp == split_slot(Db, slot, f, t)
        IN  /\ slots \subseteq sp.db.slots
            /\ Cardinality(sp.db.slots \ slots) <= 2
            /\ sp.db.res = reservations

SequenceOrder ==
    \A p \in Procs :
        /\ (procs[p].pc = "split" /\ procs'[p].pc = "delete")
              => /\ slots \subseteq slots'
                 /\ Cardinality(slots' \ slots) <= 2
                 /\ reservations' = reservations
        /\ (procs[p].pc = "delete" /\ procs'[p].pc = "save")
              => /\ slots' = slots \ {procs[p].slot}
                 /\ reservations' = reservations
        /\ (procs[p].pc = "save" /\ procs'[p].pc = "finish")
              => /\ slots' = slots
                 /\ procs[p].slot \notin slots
                 /\ Cardinality(reservations') = Cardinality(reservations) + 1

\* C34: split_slot only adds slots: it neither deletes nor modifies the slot
\* it is called on or any other slot and creates at most two slots; in the
\* reserve sequence the original is removed by the caller's later delete,
\* after the residuals exist, and the reservation is persisted after the
\* deletion.
C34_SplitOnlyAddsSlots ==
    /\ []SplitOnlyAdds
    /\ [][SequenceOrder]_vars

\* A request strictly inside the slot has been split into two residuals and
\* the original is still stored, its delete pending
C34_Witness ==
    \E p \in Procs :
        /\ procs[p].pc = "delete"
        /\ procs[p].slot \in slots
        /\ Cardinality(slots) = 3
        /\ reservations = {}

(***************************************************************************)
(* The flag after a slot is saved or deleted                               *)
(***************************************************************************)
\* C35: after any save or delete of any slot of an accommodation (whatever
\* the slot's is_available value, a slot saved with is_available = false
\* included), the accommodation's is_available flag equals 'at least one
\* available slot exists'.
C35_FlagAfterSlotSaveOrDelete ==
    call.op \in {"slot_save", "slot_delete"}
    => (Stored(Db, call.acc) <=> AvailableSlots(Db, call.acc) # {})

(***************************************************************************)
(* is_available_for_dates against the stored flag and slots                *)
(***************************************************************************)
SingleSlotHolds(a, f, t) ==
    \E s \in slots : s.acc = a /\ s.is_available /\ DaysOf(f, t) \subseteq SlotDays(s)

UnionHolds(a, f, t) ==
    DaysOf(f, t) \subseteq UNION {SlotDays(s) : s \in {x \in slots : x.acc = a /\ x.is_available}}

\* C36: is_available_for_dates(from, to) is true iff the accommodation's
\* flag is true, (to - from) + 1 >= min_reservation_days and some available
\* slot has start_date <= from and end_date >= to; a non-empty range that no
\* single available slot contains (it lies only partly inside a slot, or
\* only the union of two slots covers it) yields false.
C36_AvailableForDatesIffCovered ==
    \A a \in Accs, f \in Days, t \in Days :
        accommodations[a].exists
        => LET res == is_available_for_dates(Db, a, Stored(Db, a), f, t)
           IN  /\ res <=> /\ accommodations[a].is_available
                          /\ Length(f, t) >= accommodations[a].min_reservation_days
                          /\ HasCoveringSlot(a, f, t)
               /\ (f <= t /\ ~SingleSlotHolds(a, f, t)) => ~res

\* the flag is set, the range is long enough, two available slots together
\* hold every day of the range, no single one does, and the answer is false
C36_Witness ==
    \E a \in Accs, f \in Days, t \in Days :
        /\ accommodations[a].exists /\ accommodations[a].is_available
        /\ f < t /\ Length(f, t) >= accommodations[a].min_reservation_days
        /\ UnionHolds(a, f, t) /\ ~SingleSlotHolds(a, f, t)
        /\ ~is_available_for_dates(Db, a, Stored(Db, a), f, t)
        /\ \E g \in Days : is_available_for_dates(Db, a, Stored(Db, a), g, g)

(***************************************************************************)
(* Requests on an accommodation whose flag is false                        *)
(***************************************************************************)
\* C37: while an accommodation's is_available flag is false, every
\* reservation attempt on it, through reserve and through reservation
\* create, is rejected and stores nothing, even if an available slot covers
\* the requested dates.
C37_FlagFalseRejectsEveryAttempt ==
    \A a \in Accs, m \in Members, f \in Days, t \in Days, st \in PayloadStatuses :
        (accommodations[a].exists /\ ~accommodations[a].is_available)
        => /\ ~reserve(Db, a, m, f, t).ok
           /\ reserve(Db, a, m, f, t).db = Db
           /\ ~reservation_create(Db, a, m, f, t, st).ok
           /\ reservation_create(Db, a, m, f, t, st).db = Db

\* the flag is false, an available slot covers the dates, and the same
\* request is accepted by both paths once the flag is true
C37_Witness ==
    \E a \in Accs, m \in Members, f \in Days, t \in Days :
        /\ accommodations[a].exists /\ ~accommodations[a].is_available
        /\ HasCoveringSlot(a, f, t)
        /\ LET on == [Db EXCEPT !.acc[a].is_available = TRUE]
           IN  reserve(on, a, m, f, t).ok /\ reservation_create(on, a, m, f, t, "PENDING").ok

TwoAccs == {1, 2}

TwoRanges == {sh \in SlotShapes : sh.is_available /\ sh.start_date <= sh.end_date}

ReservationChoices ==
    {[status |-> "NONE", reserved_from |-> 1, reserved_to |-> 1],
     [status |-> "PENDING", reserved_from |-> 1, reserved_to |-> 1],
     [status |-> "CONFIRMED", reserved_from |-> 1, reserved_to |-> 2]}

InitTwo ==
    \E n1 \in 0..MaxSlots, n2 \in 0..(MaxSlots - 1),
       av \in [TwoAccs -> BOOLEAN], rc \in [TwoAccs -> ReservationChoices] :
        \E sh1 \in [1..n1 -> TwoRanges], sh2 \in [1..n2 -> TwoRanges] :
            /\ accommodations = [a \in TwoAccs |->
                                   [exists |-> TRUE, is_available |-> av[a],
                                    min_reservation_days |-> 1]]
            /\ slots = {MkSlot(i, 1, sh1[i]) : i \in 1..n1}
                         \cup {MkSlot(n1 + i, 2, sh2[i]) : i \in 1..n2}
            /\ reservations =
                  {[id |-> a, acc |-> a, member |-> 1,
                    reserved_from |-> rc[a].reserved_from,
                    reserved_to |-> rc[a].reserved_to,
                    status |-> rc[a].status] :
                       a \in {b \in TwoAccs : rc[b].status # "NONE"}}
            /\ nextSlotId = n1 + n2 + 1
            /\ nextResId = Cardinality(TwoAccs) + 1
            /\ call = NoCall
            /\ orig = Db
            /\ procs = <<>>

\* one request on accommodation a; the state before it is kept in orig
Request(op, a, db) ==
    /\ call.op = "none"
    /\ SetDb(db)
    /\ call' = [op |-> op, acc |-> a]
    /\ orig' = Db
    /\ UNCHANGED procs

TwoReserve ==
    \E a \in TwoAccs, m \in Members, f \in Days, t \in Days :
        /\ accommodations[a].exists
        /\ Request("reserve", a, reserve(Db, a, m, f, t).db)

TwoReservationCreate ==
    \E a \in TwoAccs, m \in Members, f \in Days, t \in Days, st \in PayloadStatuses :
        /\ accommodations[a].exists
        /\ Request("create", a, reservation_create(Db, a, m, f, t, st).db)

TwoCancel ==
    \E r \in reservations, ord \in TieOrders :
        Request("cancel", r.acc, cancel_view(Db, r, ord).db)

TwoUpdateStatus ==
    \E r \in reservations, st \in Statuses, ord \in TieOrders :
        Request("update_status", r.acc, update_status(Db, r, st, ord).db)

TwoAddAvailability ==
    \E a \in TwoAccs, f \in Days, t \in Days, ord \in TieOrders :
        /\ accommodations[a].exists
        /\ Request("add_availability", a, add_availability(Db, a, f, t, ord).db)

TwoMarkUnavailable ==
    \E a \in TwoAccs :
        /\ accommodations[a].exists
        /\ Request("mark_unavailable", a, mark_unavailable(Db, a).db)

TwoMerge ==
    \E a \in TwoAccs, ord \in TieOrders :
        /\ accommodations[a].exists
        /\ Request("merge_adjacent_slots", a, merge_adjacent_slots(Db, a, ord))

NextTwo ==
    \/ TwoReserve
    \/ TwoReservationCreate
    \/ TwoCancel
    \/ TwoUpdateStatus
    \/ TwoAddAvailability
    \/ TwoMarkUnavailable
    \/ TwoMerge

SpecTwo == InitTwo /\ [][NextTwo]_vars

RowsOf(rows, a) == {x \in rows : x.acc = a}

\* C39: reserve, reservation create, cancel, update-status,
\* add-availability, mark-unavailable and merge on one accommodation leave
\* the slots, the is_available flag and the reservations of every other
\* accommodation as they were before the request.
C39_OtherAccommodationsUntouched ==
    call.op # "none"
    => \A b \in TwoAccs \ {call.acc} :
          /\ accommodations[b] = orig.acc[b]
          /\ RowsOf(slots, b) = RowsOf(orig.slots, b)
          /\ RowsOf(reservations, b) = RowsOf(orig.res, b)

\* a merge changed the slots of one accommodation while another
\* accommodation held a slot day-adjacent to one of them, and a reservation
C39_Witness ==
    /\ call.op = "merge_adjacent_slots"
    /\ RowsOf(slots, call.acc) # RowsOf(orig.slots, call.acc)
    /\ \E b \in TwoAccs \ {call.acc} :
          /\ RowsOf(reservations, b) # {}
          /\ \E x \in RowsOf(orig.slots, call.acc), y \in RowsOf(slots, b) :
                x.end_date + 1 = y.start_date

(***************************************************************************)
(* The notification collaborator.  mail is what the mail side does when    *)
(* send_notification_to_specialists runs: the message goes out, the        *)
(* university has no specialist, or send_mail raises.  The result tells    *)
(* whether an exception leaves the function and which value it returns.    *)
(***************************************************************************)
MailOutcomes == {"sent", "no_specialists", "smtp_error"}

send_notification_to_specialists_uncaught(mail) ==
    IF mail = "no_specialists" THEN [raised |-> FALSE, value |-> FALSE]
    ELSE IF mail = "smtp_error" THEN [raised |-> TRUE, value |-> FALSE]
    ELSE [raised |-> FALSE, value |-> TRUE]

send_notification_to_specialists(mail) ==
    IF mail = "no_specialists" THEN [raised |-> FALSE, value |-> FALSE]
    ELSE IF mail = "smtp_error" THEN [raised |-> FALSE, value |-> FALSE]
    ELSE [raised |-> FALSE, value |-> TRUE]

\* A view calls notify_reservation_*(reservation) with the database at
\* before and ignores the returned value; an exception leaving the call
\* ends the request there with a server error, otherwise the view runs on
\* to its result after.
Notified(mail, before, after) ==
    IF send_notification_to_specialists(mail).raised
    THEN Reject(before, "server_error")
    ELSE after

\* reserve: the notification follows serializer.save() and precedes
\* accommodation.update_availability_status()
reserve_notifying(db, a, m, f, t, mail) ==
    LET v == reserve(db, a, m, f, t)
    IN  IF ~v.ok THEN v
        ELSE Notified(mail,
                      reservation_save(consume_slot(db, covering_slot(db, a, f, t), f, t),
                                       a, m, f, t, "PENDING"),
                      v)

\* reservation create: the notification follows serializer.save() and
\* precedes the flag update
reservation_create_notifying(db, a, m, f, t, st, mail) ==
    LET v == reservation_create(db, a, m, f, t, st)
    IN  IF ~v.ok THEN v
        ELSE Notified(mail,
                      reservation_save(consume_slot(db, covering_slot(db, a, f, t), f, t),
                                       a, m, f, t, st),
                      v)

\* cancel view: the notification follows reservation.cancel() and precedes
\* accommodation.update_availability_status()
cancel_view_notifying(db, r, ord, mail) ==
    LET v == cancel_view(db, r, ord)
    IN  IF ~v.ok THEN v
        ELSE Notified(mail, cancel(db, r, ord).db, v)

\* update-status: no notification on an invalid or unchanged status; else
\* it follows reservation.cancel() or reservation.save() and only the log
\* and the response come after it
update_status_notifying(db, r, new_status, ord, mail) ==
    LET v == update_status(db, r, new_status, ord)
    IN  IF ~v.ok \/ r.status = new_status THEN v
        ELSE Notified(mail, v.db, v)

\* C40: whether the notification collaborator succeeds or fails when it is
\* invoked on reservation creation, cancellation or status change, the
\* request reports the same outcome and leaves the same reservation
\* statuses, slots and is_available flag as when the message goes out.
C40_NotificationOutcomeIrrelevant ==
    \A mail \in MailOutcomes :
        /\ \A a \in Accs, m \in Members, f \in Days, t \in Days :
              accommodations[a].exists
              => /\ reserve_notifying(Db, a, m, f, t, mail)
                      = reserve_notifying(Db, a, m, f, t, "sent")
                 /\ \A st \in PayloadStatuses :
                       reservation_create_notifying(Db, a, m, f, t, st, mail)
                         = reservation_create_notifying(Db, a, m, f, t, st, "sent")
        /\ \A r \in reservations, ord \in TieOrders :
              /\ cancel_view_notifying(Db, r, ord, mail)
                   = cancel_view_notifying(Db, r, ord, "sent")
              /\ \A st \in Statuses :
                    update_status_notifying(Db, r, st, ord, mail)
                      = update_status_notifying(Db, r, st, ord, "sent")

\* with send_mail raising or no specialist to write to, a reserve and a
\* create request are accepted, and so are a cancellation and a status
\* change of a PENDING reservation
C40_Witness ==
    /\ \E a \in Accs, m \in Members, f \in Days, t \in Days :
          /\ accommodations[a].exists
          /\ reserve_notifying(Db, a, m, f, t, "smtp_error").ok
          /\ reservation_create_notifying(Db, a, m, f, t, "PENDING", "no_specialists").ok
    /\ \E r \in reservations, ord \in TieOrders :
          /\ r.status = "PENDING"
          /\ cancel_view_notifying(Db, r, ord, "smtp_error").ok
          /\ update_status_notifying(Db, r, "CONFIRMED", ord, "smtp_error").ok

=============================================================================
